---------------------------- MODULE Spec2Model ----------------------------
(***************************************************************************)
(* A model of the brainfuck front end and interpreter of src/rust/src/     *)
(* lib.rs: tokenize, parse / do_parse, optimize, run / do_run, the Buffer  *)
(* tape and the two byte I/O primitives read_mem and print_mem.            *)
(*                                                                         *)
(* Representation.                                                         *)
(*  - A character is a one-character string; a source is a sequence of     *)
(*    characters.  Sequences are 1-based here, the code's positions are    *)
(*    0-based: the character at index i carries position i - 1.            *)
(*  - A Token / Expression is a record tagged by "kind", with the          *)
(*    variant's payload (pos, n, sub) when the variant has one.            *)
(*  - u32 and usize values are little-endian sequences of 16-bit limbs    *)
(*    (2 limbs for u32, 4 for a 64-bit usize), so that 2^32 - 1 and a      *)
(*    wrapped pointer are representable and overflow is explicit.          *)
(*  - The tape's Vec<u32> of 30000 cells is kept as a function defined on  *)
(*    the indices of its nonzero cells; every other index below BufSize    *)
(*    holds zero.                                                          *)
(*  - Arithmetic overflow of +, +=, -= is a property of the build: with    *)
(*    overflow checks (the debug profile) it panics, without them (the     *)
(*    release profile) it wraps.  The build is chosen in Init.             *)
(*  - Standard output is assumed healthy (writes and flushes succeed).     *)
(***************************************************************************)
EXTENDS Integers, Sequences, FiniteSets, TLC

VARIABLES
    src,            \* the program text, Vec<char>
    overflowChecks, \* TRUE: arithmetic overflow panics; FALSE: it wraps
    stdin,          \* what standard input still holds
    phase,          \* position in the pipeline
    tokens,         \* result of tokenize
    parsed,         \* result of parse: [ok, exprs] or [ok, err]
    optimized,      \* result of the last optimize pass
    previous,       \* the tree the last optimize pass was applied to
    passes,         \* number of optimize passes applied
    runTree,        \* the tree handed to run
    mem,            \* the Buffer<u32>: [buf, ptr]
    stack,          \* do_run's activations: <<[exprs, i]>>, innermost last
    stdout,         \* bytes written to standard output
    status,         \* "idle", "running" or how run ended
    iters,          \* loop iterations started so far
    resParsed,      \* outcome of run on the parsed tree
    resOptimized    \* outcome of run on the optimized tree

vars == <<src, overflowChecks, stdin, phase, tokens, parsed, optimized,
          previous, passes, runTree, mem, stack, stdout, status, iters,
          resParsed, resOptimized>>

-----------------------------------------------------------------------------
(* Bounds of the model *)

\* longest source enumerated exhaustively by the front-end specification
MaxSrcLen == 4

\* longest source enumerated exhaustively by the interpreter specifications
MaxRunLen == 2

\* longest source enumerated exhaustively when the runs of the parsed and of
\* the optimized tree are compared
MaxEquivLen == 3

\* longest standard input enumerated
MaxInLen == 2

\* loop iterations an execution may start before the model stops following it
MaxIters == 4

-----------------------------------------------------------------------------
(* Characters and sources *)

InstrChars == {"[", "]", ">", "<", "+", "-", ".", ","}

\* "a" stands for every character outside the instruction set
Chars == InstrChars \cup {"a"}

RECURSIVE SeqsUpTo(_, _)
SeqsUpTo(S, n) ==
    IF n = 0 THEN {<<>>}
    ELSE LET shorter == SeqsUpTo(S, n - 1)
         IN  shorter \cup {Append(s, c) : s \in {t \in shorter : Len(t) = n - 1}, c \in S}

\* the programs of the spec's examples, and programs that reach the
\* arithmetic and I/O edge cases
SamplePrograms ==
    { <<"a", "+", "b">>,
      <<"[", "[", "]", "]">>,
      <<"+", "+", "+", "[", "-", "]">>,
      <<"+", "+", "+", ".">>,
      <<"+", "-", ">", "<", ".", ",", "[", "]">>,
      <<"+", "[", "]", "+", "+">>,
      <<",", "+", ".", "+">>,
      <<",", "[", ".", ",", "]">>,
      <<"-", "+", ">", ">", "<", "<">>,
      <<"<", "<", ">", ">", "+">>,
      <<"+", "+", "[", ">", "+", "+", "<", "-", "]", ">", ".">>,
      <<"+", "[", "[", "-", "]", "]", ",", ",">> }


-----------------------------------------------------------------------------
(* Tokens and tokenize *)

ProgramStart == [kind |-> "ProgramStart"]
ProgramEnd   == [kind |-> "ProgramEnd"]
Token(k, pos) == [kind |-> k, pos |-> pos]

\* the match of tokenize: the token kind of an instruction character
TokenKind(opcode) ==
    CASE opcode = "[" -> "LoopStart"
      [] opcode = "]" -> "LoopEnd"
      [] opcode = ">" -> "MoveForward"
      [] opcode = "<" -> "MoveBack"
      [] opcode = "+" -> "IncValue"
      [] opcode = "-" -> "DecValue"
      [] opcode = "." -> "OutputValue"
      [] opcode = "," -> "InputValue"

\* a mutant: positions counted from 1
tokenize_scan_from_one(program, i, toks) ==
    IF program[i] \in InstrChars
    THEN Append(toks, Token(TokenKind(program[i]), i))
    ELSE toks

\* one turn of the for loop over program.iter().enumerate(): i is the
\* 1-based index, i - 1 the position enumerate() yields
tokenize_scan(program, i, toks) ==
    IF program[i] \in InstrChars
    THEN Append(toks, Token(TokenKind(program[i]), i - 1))
    ELSE toks

RECURSIVE tokenize_loop(_, _, _)
tokenize_loop(program, i, toks) ==
    IF i > Len(program) THEN toks
    ELSE tokenize_loop(program, i + 1, tokenize_scan(program, i, toks))

tokenize(program) ==
    Append(tokenize_loop(program, 1, <<ProgramStart>>), ProgramEnd)

-----------------------------------------------------------------------------
(* Expressions and parse *)

Counted(k, n) == [kind |-> k, n |-> n]
InputValue    == [kind |-> "InputValue"]
OutputValue   == [kind |-> "OutputValue"]
Loop(sub_exp) == [kind |-> "Loop", sub |-> sub_exp]

CountedKinds == {"IncValue", "DecValue", "MoveForward", "MoveBack"}

ParseErr(k, pos) == [ok |-> FALSE, err |-> [kind |-> k, pos |-> pos]]

\* a mutant: the MoveBack arm pushes the MoveForward expression
PrimitiveOfSlip(token) ==
    CASE token.kind = "MoveBack"        -> Counted("MoveForward", 1)
      [] token.kind \in CountedKinds    -> Counted(token.kind, 1)
      [] token.kind = "OutputValue"     -> OutputValue
      [] token.kind = "InputValue"      -> InputValue

\* the expression a primitive instruction token is pushed as
PrimitiveOf(token) ==
    CASE token.kind \in CountedKinds    -> Counted(token.kind, 1)
      [] token.kind = "OutputValue"     -> OutputValue
      [] token.kind = "InputValue"      -> InputValue

\* a mutant: a closing bracket is accepted at level 0 as well
RECURSIVE do_parse_lenient(_, _, _, _)
do_parse_lenient(toks, cur, level, expressions) ==
    IF cur >= Len(toks)
    THEN [ok |-> TRUE, exprs |-> expressions, next |-> cur]
    ELSE LET token == toks[cur + 1] IN
         CASE token.kind = "LoopStart" ->
                LET r == do_parse_lenient(toks, cur + 1, level + 1, <<>>) IN
                IF ~r.ok THEN r
                ELSE do_parse_lenient(toks, r.next, level,
                                      Append(expressions, Loop(r.exprs)))
           [] token.kind = "LoopEnd" ->
                [ok |-> TRUE, exprs |-> expressions, next |-> cur + 1]
           [] token.kind = "ProgramStart" ->
                do_parse_lenient(toks, cur + 1, level, expressions)
           [] token.kind = "ProgramEnd" ->
                IF level > 0 THEN ParseErr("ExcessiveOpeningBrackets", 0)
                ELSE do_parse_lenient(toks, cur + 1, level, expressions)
           [] OTHER ->
                do_parse_lenient(toks, cur + 1, level,
                                 Append(expressions, PrimitiveOf(token)))

\* do_parse: toks with cur tokens already consumed stands for the slice
\* iterator; expressions is the local accumulator; one evaluation is one
\* turn of the loop.  Ok carries the expressions and the iterator (next).
RECURSIVE do_parse(_, _, _, _)
do_parse(toks, cur, level, expressions) ==
    IF cur >= Len(toks)
    THEN [ok |-> TRUE, exprs |-> expressions, next |-> cur]
    ELSE LET token == toks[cur + 1] IN
         CASE token.kind = "LoopStart" ->
                LET r == do_parse(toks, cur + 1, level + 1, <<>>) IN
                IF ~r.ok THEN r
                ELSE do_parse(toks, r.next, level,
                              Append(expressions, Loop(r.exprs)))
           [] token.kind = "LoopEnd" ->
                IF level = 0
                THEN ParseErr("UnexpectedClosingBracket", token.pos)
                ELSE [ok |-> TRUE, exprs |-> expressions, next |-> cur + 1]
           [] token.kind = "ProgramStart" ->
                do_parse(toks, cur + 1, level, expressions)
           [] token.kind = "ProgramEnd" ->
                IF level > 0 THEN ParseErr("ExcessiveOpeningBrackets", 0)
                ELSE do_parse(toks, cur + 1, level, expressions)
           [] OTHER ->
                do_parse(toks, cur + 1, level,
                         Append(expressions, PrimitiveOf(token)))

parse(toks) ==
    LET r == do_parse(toks, 0, 0, <<>>) IN
    IF r.ok THEN [ok |-> TRUE, exprs |-> r.exprs] ELSE r

-----------------------------------------------------------------------------
(* optimize *)

\* a mutant: the clone forgets the count
CloneResetsCount(e) ==
    IF e.kind \in CountedKinds THEN Counted(e.kind, 1) ELSE e

\* impl Clone for Expression
CloneExpr(e) ==
    CASE e.kind \in CountedKinds   -> Counted(e.kind, e.n)
      [] e.kind = "InputValue"     -> InputValue
      [] e.kind = "OutputValue"    -> OutputValue
      [] e.kind = "Loop"           -> Loop(e.sub)

\* a mutant: the merged node is pushed on top of the node it should replace
push_without_pop(v, e) == Append(v, e)

replace_top(v, e) == Append(SubSeq(v, 1, Len(v) - 1), e)

\* a mutant: a Loop is copied as it is, its body is not optimized
RECURSIVE optimize_shallow(_, _, _)
optimize_shallow(expressions, i, acc) ==
    IF i > Len(expressions) THEN acc
    ELSE LET expression == expressions[i]
             last == IF acc = <<>> THEN [kind |-> "None"] ELSE acc[Len(acc)]
         IN  optimize_shallow(expressions, i + 1,
               CASE expression.kind = "Loop" ->
                      Append(acc, CloneExpr(expression))
                 [] /\ expression.kind \in CountedKinds
                    /\ last.kind = expression.kind
                    /\ expression.n = 1 ->
                      replace_top(acc, Counted(expression.kind, last.n + 1))
                 [] OTHER ->
                      Append(acc, CloneExpr(expression)))

\* optimize: i is the for loop's position in expressions, acc the vector
\* `optimized`.  The counts n + 1 stay far below the width of u32 / usize
\* for the trees a parse of a bounded source yields.
RECURSIVE optimize_from(_, _, _)
optimize_from(expressions, i, acc) ==
    IF i > Len(expressions) THEN acc
    ELSE LET expression == expressions[i]
             last == IF acc = <<>> THEN [kind |-> "None"] ELSE acc[Len(acc)]
         IN  optimize_from(expressions, i + 1,
               CASE expression.kind = "Loop" ->
                      Append(acc, Loop(optimize_from(expression.sub, 1, <<>>)))
                 [] /\ expression.kind \in CountedKinds
                    /\ last.kind = expression.kind
                    /\ expression.n = 1 ->
                      replace_top(acc, Counted(expression.kind, last.n + 1))
                 [] OTHER ->
                      Append(acc, CloneExpr(expression)))

optimize(expressions) == optimize_from(expressions, 1, <<>>)

-----------------------------------------------------------------------------
(* Unsigned machine integers: little-endian sequences of 16-bit limbs *)

LimbBase == 2^16

\* limbs of a u32 and of a usize (64-bit target)
U32Limbs   == 2
UsizeLimbs == 4

ZeroOf(w) == [i \in 1..w |-> 0]

\* the w-limb value of a natural number below 2^31
FromNat(n, w) ==
    [i \in 1..w |-> IF i = 1 THEN n % LimbBase
                    ELSE IF i = 2 THEN (n \div LimbBase) % LimbBase
                    ELSE 0]

\* the largest value of w limbs, 2^(16 w) - 1
MaxOf(w) == [i \in 1..w |-> LimbBase - 1]

\* a + b in w limbs: the wrapped sum, and whether it overflowed
AddLimbs(a, b) ==
    LET w == Len(a)
        c[i \in 1..(w + 1)] ==
            IF i = 1 THEN 0 ELSE (a[i - 1] + b[i - 1] + c[i - 1]) \div LimbBase
    IN  [val      |-> [i \in 1..w |-> (a[i] + b[i] + c[i]) % LimbBase],
         overflow |-> c[w + 1] = 1]

\* a - b in w limbs: the wrapped difference, and whether it underflowed
SubLimbs(a, b) ==
    LET w == Len(a)
        bw[i \in 1..(w + 1)] ==
            IF i = 1 THEN 0
            ELSE IF a[i - 1] - b[i - 1] - bw[i - 1] < 0 THEN 1 ELSE 0
    IN  [val      |-> [i \in 1..w |-> (a[i] - b[i] - bw[i] + LimbBase) % LimbBase],
         overflow |-> bw[w + 1] = 1]

\* the value as a natural number, for values below 2^16
IsSmall(a) == \A i \in 2..Len(a) : a[i] = 0
SmallNat(a) == a[1]

-----------------------------------------------------------------------------
(* Buffer<u32> *)

\* the tape length run allocates
BufSize == 30000

\* Buffer::new: buf_size zero cells (none stored), ptr 0
BufferNew(buf_size) ==
    [buf |-> <<>>, len |-> buf_size, ptr |-> ZeroOf(UsizeLimbs)]

\* whether self.buf[self.ptr] is inside the vector
InBounds(m) == IsSmall(m.ptr) /\ SmallNat(m.ptr) < m.len

CellAt(m, i) == IF i \in DOMAIN m.buf THEN m.buf[i] ELSE ZeroOf(U32Limbs)

SetCell(m, i, v) ==
    LET keep == IF v = ZeroOf(U32Limbs)
                THEN DOMAIN m.buf \ {i} ELSE DOMAIN m.buf \cup {i}
    IN  [m EXCEPT !.buf = [j \in keep |-> IF j = i THEN v ELSE m.buf[j]]]

\* The Buffer operations return the buffer and how the call ended: "none",
\* or the panic ("overflow": arithmetic overflow under overflow checks,
\* "bounds": index out of bounds).
Done(m)      == [mem |-> m, fault |-> "none"]
Panic(m, f)  == [mem |-> m, fault |-> f]

\* Buffer::fwd: self.ptr += offset
fwd(m, offset, checks) ==
    LET r == AddLimbs(m.ptr, FromNat(offset, UsizeLimbs)) IN
    IF r.overflow /\ checks THEN Panic(m, "overflow")
    ELSE Done([m EXCEPT !.ptr = r.val])

\* Buffer::bwd: self.ptr -= offset
bwd(m, offset, checks) ==
    LET r == SubLimbs(m.ptr, FromNat(offset, UsizeLimbs)) IN
    IF r.overflow /\ checks THEN Panic(m, "overflow")
    ELSE Done([m EXCEPT !.ptr = r.val])

\* Buffer::inc: self.buf[self.ptr] += offset
inc(m, offset, checks) ==
    IF ~InBounds(m) THEN Panic(m, "bounds")
    ELSE LET r == AddLimbs(CellAt(m, SmallNat(m.ptr)), FromNat(offset, U32Limbs))
         IN  IF r.overflow /\ checks THEN Panic(m, "overflow")
             ELSE Done(SetCell(m, SmallNat(m.ptr), r.val))

\* Buffer::dec: self.buf[self.ptr] -= offset
dec(m, offset, checks) ==
    IF ~InBounds(m) THEN Panic(m, "bounds")
    ELSE LET r == SubLimbs(CellAt(m, SmallNat(m.ptr)), FromNat(offset, U32Limbs))
         IN  IF r.overflow /\ checks THEN Panic(m, "overflow")
             ELSE Done(SetCell(m, SmallNat(m.ptr), r.val))

\* Buffer::read: self.buf[self.ptr]; the value is meaningful when fault is "none"
read(m) ==
    IF ~InBounds(m) THEN [val |-> ZeroOf(U32Limbs), fault |-> "bounds"]
    ELSE [val |-> CellAt(m, SmallNat(m.ptr)), fault |-> "none"]

\* Buffer::write: self.buf[self.ptr] = val
write(m, val) ==
    IF ~InBounds(m) THEN Panic(m, "bounds")
    ELSE Done(SetCell(m, SmallNat(m.ptr), val))

-----------------------------------------------------------------------------
(* Byte I/O *)

\* Standard input is a sequence of items: a byte, or a read that faults.
\* The empty sequence is end-of-stream.
InByte(b) == [ok |-> TRUE, byte |-> b]
InFault   == [ok |-> FALSE, byte |-> 0]

\* read_mem: input starts as [0]; stdin().read(&mut input)? returns Err on a
\* fault, Ok(1) with the byte stored, or Ok(0) at end-of-stream with input
\* untouched; the count is not looked at; Ok(input[0].into()).
read_mem(in) ==
    IF in = <<>>
    THEN [ok |-> TRUE, val |-> FromNat(0, U32Limbs), rest |-> in]
    ELSE IF ~Head(in).ok
    THEN [ok |-> FALSE, val |-> FromNat(0, U32Limbs), rest |-> Tail(in)]
    ELSE [ok |-> TRUE, val |-> FromNat(Head(in).byte, U32Limbs), rest |-> Tail(in)]

\* the UTF-8 encoding of the char U+0000..U+00FF that `x as char` is
Utf8(x) ==
    IF x < 128 THEN <<x>> ELSE <<192 + (x \div 64), 128 + (x % 64)>>

\* print_mem: mem.try_into().unwrap() panics unless mem <= 255; print!
\* writes the char's UTF-8 encoding; flush.
print_mem(cell) ==
    IF ~(IsSmall(cell) /\ SmallNat(cell) <= 255)
    THEN [bytes |-> <<>>, fault |-> "unwrap"]
    ELSE [bytes |-> Utf8(SmallNat(cell)), fault |-> "none"]

-----------------------------------------------------------------------------
(* run and do_run *)

\* An execution state: the tape, both streams, the loop iterations started
\* and how far execution got: "running", "ok" (run returned Ok),
\* "io_error" (Err(IOError)), "panic_overflow", "panic_bounds",
\* "panic_unwrap", or "cutoff" (MaxIters iterations were started and a
\* further one is due: the model follows the execution no further).
Exec(m, in, out, st, it) ==
    [mem |-> m, stdin |-> in, stdout |-> out, status |-> st, iters |-> it]

AfterCall(x, r) ==
    IF r.fault = "none" THEN [x EXCEPT !.mem = r.mem]
    ELSE [x EXCEPT !.status = "panic_" \o r.fault]

\* the InputValue arm of do_run: mem.write(read_mem()?)
do_run_input(x) ==
    LET r == read_mem(x.stdin) IN
    IF ~r.ok
    THEN [x EXCEPT !.stdin = r.rest, !.status = "io_error"]
    ELSE AfterCall([x EXCEPT !.stdin = r.rest], write(x.mem, r.val))

\* the OutputValue arm of do_run: print_mem(mem.read())?
do_run_output(x) ==
    LET c == read(x.mem) IN
    IF c.fault # "none" THEN [x EXCEPT !.status = "panic_" \o c.fault]
    ELSE LET p == print_mem(c.val) IN
         IF p.fault # "none" THEN [x EXCEPT !.status = "panic_" \o p.fault]
         ELSE [x EXCEPT !.stdout = x.stdout \o p.bytes]

\* the arms of do_run's match for the expressions other than Loop
do_run_arm(expression, x, checks) ==
    CASE expression.kind = "MoveForward" -> AfterCall(x, fwd(x.mem, expression.n, checks))
      [] expression.kind = "MoveBack"    -> AfterCall(x, bwd(x.mem, expression.n, checks))
      [] expression.kind = "IncValue"    -> AfterCall(x, inc(x.mem, expression.n, checks))
      [] expression.kind = "DecValue"    -> AfterCall(x, dec(x.mem, expression.n, checks))
      [] expression.kind = "OutputValue" -> do_run_output(x)
      [] expression.kind = "InputValue"  -> do_run_input(x)

\* a mutant: while mem.read() > 1
loop_test_above_one(x) ==
    LET c == read(x.mem) IN
    IF c.fault # "none" THEN "panic"
    ELSE IF IsSmall(c.val) /\ SmallNat(c.val) <= 1 THEN "exit"
    ELSE IF x.iters >= MaxIters THEN "cutoff"
    ELSE "enter"

\* the test of `while mem.read() > 0`: "panic" (index out of bounds),
\* "exit", "enter", or "cutoff" when the model's iteration bound is used up
loop_test(x) ==
    LET c == read(x.mem) IN
    IF c.fault # "none" THEN "panic"
    ELSE IF c.val = ZeroOf(U32Limbs) THEN "exit"
    ELSE IF x.iters >= MaxIters THEN "cutoff"
    ELSE "enter"

\* do_run from the for loop's position i on; a state that is no longer
\* "running" is returned as it is (the ? and the panics unwind)
RECURSIVE do_run(_, _, _, _)
do_run(expressions, i, x, checks) ==
    IF x.status # "running" \/ i > Len(expressions) THEN x
    ELSE LET expression == expressions[i] IN
         IF expression.kind # "Loop"
         THEN do_run(expressions, i + 1, do_run_arm(expression, x, checks), checks)
         ELSE LET t == loop_test(x) IN
              CASE t = "panic"  -> [x EXCEPT !.status = "panic_bounds"]
                [] t = "cutoff" -> [x EXCEPT !.status = "cutoff"]
                [] t = "exit"   -> do_run(expressions, i + 1, x, checks)
                [] t = "enter"  ->
                     do_run(expressions, i,
                            do_run(expression.sub, 1,
                                   [x EXCEPT !.iters = x.iters + 1], checks),
                            checks)

\* run: a fresh Buffer of 30000 cells, do_run, Ok(mem)
run(expressions, in, checks) ==
    LET x == do_run(expressions, 1,
                    Exec(BufferNew(BufSize), in, <<>>, "running", 0), checks)
    IN  IF x.status = "running" THEN [x EXCEPT !.status = "ok"] ELSE x

-----------------------------------------------------------------------------
(* The state machine: the pipeline, and do_run one match arm at a time *)

\* optimize passes the front-end specification applies
MaxPasses == 2

\* bytes standard input may hold: a control character, and two bytes above 127
InBytes == {1, 200, 255}

InputStreams == SeqsUpTo({InByte(b) : b \in InBytes} \cup {InFault}, MaxInLen)

FrontSources == SeqsUpTo(Chars, MaxSrcLen) \cup SamplePrograms
RunSources   == SeqsUpTo(InstrChars, MaxRunLen) \cup SamplePrograms
EquivSources == SeqsUpTo(InstrChars, MaxEquivLen) \cup SamplePrograms

NotYet == [ok |-> FALSE, err |-> [kind |-> "NotParsed", pos |-> 0]]
NoOutcome == Exec(BufferNew(BufSize), <<>>, <<>>, "idle", 0)

\* whether the program has an instruction that reads standard input
ReadsInput(program) == \E i \in 1..Len(program) : program[i] = ","

\* A program that never reads is started on an empty standard input: what
\* the stream holds cannot reach it.
InitWith(sources, inputs) ==
    /\ src \in sources
    /\ overflowChecks \in BOOLEAN
    /\ stdin \in (IF ReadsInput(src) THEN inputs ELSE {<<>>})
    /\ phase = "source"
    /\ tokens = <<>>
    /\ parsed = NotYet
    /\ optimized = <<>>
    /\ previous = <<>>
    /\ passes = 0
    /\ runTree = <<>>
    /\ mem = BufferNew(BufSize)
    /\ stack = <<>>
    /\ stdout = <<>>
    /\ status = "idle"
    /\ iters = 0
    /\ resParsed = NoOutcome
    /\ resOptimized = NoOutcome

machineVars == <<runTree, mem, stack, stdin, stdout, status, iters>>
resultVars  == <<resParsed, resOptimized>>

Tokenize ==
    /\ phase = "source"
    /\ tokens' = tokenize(src)
    /\ phase' = "tokenized"
    /\ UNCHANGED <<src, overflowChecks, parsed, optimized, previous, passes,
                   machineVars, resultVars>>

Parse ==
    /\ phase = "tokenized"
    /\ parsed' = parse(tokens)
    /\ phase' = "parsed"
    /\ UNCHANGED <<src, overflowChecks, tokens, optimized, previous, passes,
                   machineVars, resultVars>>

\* optimize applied to the parsed tree, or again to its own result
OptimizePass(limit) ==
    /\ phase \in {"parsed", "optimized"}
    /\ parsed.ok
    /\ passes < limit
    /\ previous' = (IF phase = "parsed" THEN parsed.exprs ELSE optimized)
    /\ optimized' = optimize(previous')
    /\ passes' = passes + 1
    /\ phase' = "optimized"
    /\ UNCHANGED <<src, overflowChecks, tokens, parsed, machineVars, resultVars>>

\* the front end optimizes, and optimizes its result again
Optimize ==
    /\ passes < MaxPasses
    /\ OptimizePass(MaxPasses)

\* before a run the tree is optimized once, or not at all
OptimizeOnce ==
    /\ passes = 0
    /\ OptimizePass(1)

\* run is entered with the parsed tree or with the optimized one
StartRun ==
    /\ phase \in {"parsed", "optimized"}
    /\ parsed.ok
    /\ runTree' = (IF phase = "parsed" THEN parsed.exprs ELSE optimized)
    /\ mem' = BufferNew(BufSize)
    /\ stack' = <<[exprs |-> runTree', i |-> 1]>>
    /\ status' = "running"
    /\ phase' = "run"
    /\ UNCHANGED <<src, overflowChecks, tokens, parsed, optimized, previous,
                   passes, stdin, stdout, iters, resultVars>>

frontVars == <<src, overflowChecks, phase, tokens, parsed, optimized,
               previous, passes>>

X == Exec(mem, stdin, stdout, status, iters)

Top == stack[Len(stack)]

\* do_run is at an expression of the innermost for loop
AtExpr == status = "running" /\ stack # <<>> /\ Top.i <= Len(Top.exprs)

Current == Top.exprs[Top.i]

Advanced == [stack EXCEPT ![Len(stack)].i = @ + 1]

StepArm(k) ==
    /\ AtExpr
    /\ Current.kind = k
    /\ LET y == do_run_arm(Current, X, overflowChecks) IN
         /\ mem' = y.mem
         /\ stdin' = y.stdin
         /\ stdout' = y.stdout
         /\ status' = y.status
         /\ stack' = (IF y.status = "running" THEN Advanced ELSE stack)
    /\ UNCHANGED <<frontVars, runTree, iters, resultVars>>

StepMoveForward ==
    /\ AtExpr /\ Current.kind = "MoveForward"
    /\ StepArm("MoveForward")

StepMoveBack ==
    /\ AtExpr /\ Current.kind = "MoveBack"
    /\ StepArm("MoveBack")

StepIncValue ==
    /\ AtExpr /\ Current.kind = "IncValue"
    /\ StepArm("IncValue")

StepDecValue ==
    /\ AtExpr /\ Current.kind = "DecValue"
    /\ StepArm("DecValue")

StepOutputValue ==
    /\ AtExpr /\ Current.kind = "OutputValue"
    /\ StepArm("OutputValue")

StepInputValue ==
    /\ AtExpr /\ Current.kind = "InputValue"
    /\ StepArm("InputValue")


\* the while test of a Loop arm: enter the body, leave the loop, or panic
StepLoop ==
    /\ AtExpr
    /\ Current.kind = "Loop"
    /\ LET t == loop_test(X) IN
         /\ status' = (CASE t = "panic"  -> "panic_bounds"
                         [] t = "cutoff" -> "cutoff"
                         [] OTHER        -> status)
         /\ stack' = (CASE t = "enter" -> Append(stack, [exprs |-> Current.sub, i |-> 1])
                        [] t = "exit"  -> Advanced
                        [] OTHER       -> stack)
         /\ iters' = (IF t = "enter" THEN iters + 1 ELSE iters)
    /\ UNCHANGED <<frontVars, runTree, mem, stdin, stdout, resultVars>>

\* the for loop of a loop body is over: Ok(()), back to the while test
StepReturn ==
    /\ status = "running"
    /\ Len(stack) > 1
    /\ Top.i > Len(Top.exprs)
    /\ stack' = SubSeq(stack, 1, Len(stack) - 1)
    /\ UNCHANGED <<frontVars, runTree, mem, stdin, stdout, status, iters, resultVars>>

\* the top-level for loop is over: run returns Ok(mem)
StepFinish ==
    /\ status = "running"
    /\ Len(stack) = 1
    /\ Top.i > Len(Top.exprs)
    /\ status' = "ok"
    /\ stack' = <<>>
    /\ UNCHANGED <<frontVars, runTree, mem, stdin, stdout, iters, resultVars>>

\* run on the parsed tree and run on the optimized tree, same input and build
RunBoth ==
    /\ phase = "optimized"
    /\ resParsed' = run(parsed.exprs, stdin, overflowChecks)
    /\ resOptimized' = run(optimized, stdin, overflowChecks)
    /\ phase' = "ran"
    /\ UNCHANGED <<src, overflowChecks, tokens, parsed, optimized, previous,
                   passes, machineVars>>

Step ==
    \/ StepMoveForward
    \/ StepMoveBack
    \/ StepIncValue
    \/ StepDecValue
    \/ StepOutputValue
    \/ StepInputValue
    \/ StepLoop
    \/ StepReturn
    \/ StepFinish

\* the interpreter: the pipeline, then run step by step
Init == InitWith(RunSources, InputStreams)
Next == Tokenize \/ Parse \/ OptimizeOnce \/ StartRun \/ Step
Spec == Init /\ [][Next]_vars

\* the interpreter, which keeps executing while it can
FairSpec == Init /\ [][Next]_vars /\ WF_vars(Next)

\* the front end: tokenize, parse, optimize, optimize again
InitFront == InitWith(FrontSources, {<<>>})
NextFront == Tokenize \/ Parse \/ Optimize
FrontSpec == InitFront /\ [][NextFront]_vars

\* run on both trees
InitEquiv == InitWith(EquivSources, InputStreams)
NextEquiv == Tokenize \/ Parse \/ OptimizeOnce \/ RunBoth
EquivSpec == InitEquiv /\ [][NextEquiv]_vars

\* the step-by-step execution ends as run does, on the input it started with
StepsAgreeWithRun ==
    (phase = "run" /\ status \notin {"idle", "running"}) =>
        \E in0 \in InputStreams :
            /\ \E k \in 0..Len(in0) : stdin = SubSeq(in0, k + 1, Len(in0))
            /\ run(runTree, in0, overflowChecks) = X

-----------------------------------------------------------------------------
(* Front-end properties *)

Parsed == phase \in {"parsed", "optimized", "run", "ran"}

\* the positioned tokens: everything between the two sentinels
Middle(toks) == SubSeq(toks, 2, Len(toks) - 1)

\* the character a token kind stands for
CharOf(k) ==
    CASE k = "LoopStart"   -> "["
      [] k = "LoopEnd"     -> "]"
      [] k = "MoveForward" -> ">"
      [] k = "MoveBack"    -> "<"
      [] k = "IncValue"    -> "+"
      [] k = "DecValue"    -> "-"
      [] k = "OutputValue" -> "."
      [] k = "InputValue"  -> ","
      [] OTHER             -> "?"

\* C9: tokenize(s) is ProgramStart, then exactly one token per instruction
\* character of s, in source order, of the character's kind and carrying the
\* character's index, then ProgramEnd; so it has at most len(s) + 2 tokens
\* and strictly increasing positions.
C9_TokenizeShape ==
    phase # "source" =>
        LET n   == Len(tokens)
            mid == Middle(tokens)
        IN  /\ n >= 2
            /\ n <= Len(src) + 2
            /\ tokens[1] = ProgramStart
            /\ tokens[n] = ProgramEnd
            /\ \A k \in 1..Len(mid) :
                 /\ DOMAIN mid[k] = {"kind", "pos"}
                 /\ mid[k].pos \in 0..(Len(src) - 1)
                 /\ src[mid[k].pos + 1] \in InstrChars
                 /\ src[mid[k].pos + 1] = CharOf(mid[k].kind)
            /\ \A j, k \in 1..Len(mid) : j < k => mid[j].pos < mid[k].pos
            /\ Len(mid) = Cardinality({i \in 1..Len(src) : src[i] \in InstrChars})

\* C9 witness: "a+b" tokenized to ProgramStart, IncValue(1), ProgramEnd
C9_Witness ==
    /\ phase = "tokenized"
    /\ src = <<"a", "+", "b">>
    /\ tokens = <<ProgramStart, Token("IncValue", 1), ProgramEnd>>

\* loops open after the first k tokens: opening minus closing brackets
Depth(toks, k) ==
    Cardinality({i \in 1..k : toks[i].kind = "LoopStart"})
      - Cardinality({i \in 1..k : toks[i].kind = "LoopEnd"})

\* the tokens at which a LoopEnd meets no open loop
Unmatched(toks) == {k \in 1..Len(toks) : Depth(toks, k) < 0}

\* what the left-to-right scan has to report
ScanVerdict(toks) ==
    IF Unmatched(toks) # {}
    THEN LET k == CHOOSE k \in Unmatched(toks) : \A j \in Unmatched(toks) : k <= j
         IN  [kind |-> "UnexpectedClosingBracket", pos |-> toks[k].pos]
    ELSE IF Depth(toks, Len(toks)) > 0
    THEN [kind |-> "ExcessiveOpeningBrackets", pos |-> 0]
    ELSE [kind |-> "Balanced", pos |-> 0]

\* C1: parse fails with UnexpectedClosingBracket(pos) exactly when the scan
\* meets a LoopEnd with no loop open (pos that token's position), with
\* ExcessiveOpeningBrackets(0) exactly when ProgramEnd is reached with a loop
\* open and no earlier unmatched LoopEnd, and succeeds exactly when the
\* brackets are balanced.
C1_FirstStructuralError ==
    Parsed =>
        /\ parsed.ok <=> ScanVerdict(tokens).kind = "Balanced"
        /\ ~parsed.ok => parsed.err = ScanVerdict(tokens)

\* C1 witness: "][" fails at the closing bracket, position 0, although a
\* loop is left open after it
C1_Witness ==
    /\ phase = "parsed"
    /\ src = <<"]", "[">>
    /\ parsed = ParseErr("UnexpectedClosingBracket", 0)

\* the token kinds a tree is the parse of
RECURSIVE Flatten(_)
Flatten(exprs) ==
    IF exprs = <<>> THEN <<>>
    ELSE LET e == Head(exprs) IN
         (IF e.kind = "Loop"
          THEN <<"LoopStart">> \o Flatten(e.sub) \o <<"LoopEnd">>
          ELSE <<e.kind>>) \o Flatten(Tail(exprs))

\* the counts carried by the nodes of a tree, at every nesting level
RECURSIVE CountsIn(_)
CountsIn(exprs) ==
    UNION {IF exprs[i].kind \in CountedKinds THEN {exprs[i].n}
           ELSE IF exprs[i].kind = "Loop" THEN CountsIn(exprs[i].sub)
           ELSE {} : i \in 1..Len(exprs)}

\* C2: a successful parse mirrors the source: one count-1 node per primitive
\* token, in order, one Loop per matched bracket pair holding the parse of
\* the tokens between the brackets, the tokens after a ']' following the
\* Loop as siblings; nothing lost, nothing duplicated.
C2_TreeMirrorsSource ==
    (Parsed /\ parsed.ok) =>
        /\ Flatten(parsed.exprs) = [k \in 1..Len(Middle(tokens)) |-> Middle(tokens)[k].kind]
        /\ CountsIn(parsed.exprs) \subseteq {1}
        /\ src = <<"[", "[", "]", "]">> => parsed.exprs = <<Loop(<<Loop(<<>>)>>)>>

\* C2 witness: "[+]-" parsed to a Loop holding the '+', followed by the '-'
C2_Witness ==
    /\ phase = "parsed"
    /\ src = <<"[", "+", "]", "-">>
    /\ parsed = [ok |-> TRUE,
                 exprs |-> <<Loop(<<Counted("IncValue", 1)>>), Counted("DecValue", 1)>>]

\* C3: optimize is idempotent on the trees parse produces: a second pass
\* returns the tree it was given, node for node, at every depth.
C3_OptimizeIdempotent ==
    (phase = "optimized" /\ passes >= 2) => optimized = previous

\* C3 witness: "[++]" optimized twice, the fold inside the loop kept
C3_Witness ==
    /\ phase = "optimized"
    /\ passes = 2
    /\ src = <<"[", "+", "+", "]">>
    /\ optimized = <<Loop(<<Counted("IncValue", 2)>>)>>

\* a folded tree written out again: each node of count n as n nodes of count 1
RECURSIVE Replicate(_, _)
Replicate(e, n) == IF n = 0 THEN <<>> ELSE <<e>> \o Replicate(e, n - 1)

RECURSIVE Unfold(_)
Unfold(exprs) ==
    IF exprs = <<>> THEN <<>>
    ELSE LET e == Head(exprs) IN
         (CASE e.kind = "Loop"         -> <<Loop(Unfold(e.sub))>>
            [] e.kind \in CountedKinds -> Replicate(Counted(e.kind, 1), e.n)
            [] OTHER                   -> <<e>>) \o Unfold(Tail(exprs))

\* no two adjacent siblings share a mergeable kind, at every nesting level
RECURSIVE NoAdjacentRun(_)
NoAdjacentRun(exprs) ==
    /\ \A i \in 1..(Len(exprs) - 1) :
         ~(exprs[i].kind \in CountedKinds /\ exprs[i + 1].kind = exprs[i].kind)
    /\ \A i \in 1..Len(exprs) :
         exprs[i].kind = "Loop" => NoAdjacentRun(exprs[i].sub)

\* C4: on a freshly parsed tree optimize folds maximally: every maximal run
\* of k siblings of one mergeable kind becomes one node of count k, nothing
\* else changes (other kinds, InputValue, OutputValue and the Loop structure
\* stay), and loop bodies are folded the same way.
C4_MaximalFolding ==
    (phase = "optimized" /\ passes = 1) =>
        /\ Unfold(optimized) = parsed.exprs
        /\ \A n \in CountsIn(optimized) : n >= 1
        /\ NoAdjacentRun(optimized)

\* C4 witness: "+[]++" folded to IncValue(1), Loop, IncValue(2): the loop
\* separates the two runs
C4_Witness ==
    /\ phase = "optimized"
    /\ passes = 1
    /\ src = <<"+", "[", "]", "+", "+">>
    /\ optimized = <<Counted("IncValue", 1), Loop(<<>>), Counted("IncValue", 2)>>

-----------------------------------------------------------------------------
(* Interpreter properties *)

\* the cell at the pointer, when the pointer is inside the tape
Cell(m) == read(m).val

\* do_run is about to execute an expression of kind k, pointer inside the tape
About(k) == AtExpr /\ Current.kind = k /\ InBounds(mem)

\* execution went on to the next expression of the same for loop
WentOn == status' = "running" /\ stack' = Advanced

\* C5: IncValue(n) / DecValue(n) add / subtract n from the cell at the
\* pointer modulo 2^32 and never fault on overflow or underflow; execution
\* continues.
C5_IncDecWrapNoFault ==
    [][/\ About("IncValue") =>
            /\ WentOn
            /\ mem'.ptr = mem.ptr
            /\ Cell(mem') = AddLimbs(Cell(mem), FromNat(Current.n, U32Limbs)).val
       /\ About("DecValue") =>
            /\ WentOn
            /\ mem'.ptr = mem.ptr
            /\ Cell(mem') = SubLimbs(Cell(mem), FromNat(Current.n, U32Limbs)).val
       /\ (About("DecValue") /\ Cell(mem) = ZeroOf(U32Limbs) /\ Current.n = 1) =>
            Cell(mem') = MaxOf(U32Limbs)
       /\ (About("IncValue") /\ Cell(mem) = MaxOf(U32Limbs) /\ Current.n = 1) =>
            Cell(mem') = ZeroOf(U32Limbs)]_vars

\* the low 8 bits of a cell
LowByte(cell) == cell[1] % 256

\* C6: OutputValue appends exactly one byte, the cell modulo 256, to the
\* output, leaves tape and pointer unchanged and does not fault, whatever
\* the cell holds.
C6_OutputOneByteMod256 ==
    [][About("OutputValue") =>
          /\ WentOn
          /\ stdout' = Append(stdout, LowByte(Cell(mem)))
          /\ mem' = mem]_vars

\* once run has ended in an error nothing more is executed
ErrorIsFinal ==
    status \in {"io_error", "panic_overflow", "panic_bounds", "panic_unwrap"} =>
        UNCHANGED <<mem, stdin, stdout, status, iters, stack>>

\* with a byte b available InputValue consumes that byte and stores b
InputTakesOneByte ==
    (About("InputValue") /\ stdin # <<>> /\ Head(stdin).ok) =>
        /\ WentOn
        /\ stdin' = Tail(stdin)
        /\ mem'.ptr = mem.ptr
        /\ Cell(mem') = FromNat(Head(stdin).byte, U32Limbs)

\* C7: InputValue at end-of-stream aborts run with an I/O error, the cell
\* is not overwritten (with 0 or anything else) and nothing further is
\* executed; with a byte b available it consumes exactly that byte and
\* stores b in the current cell.
C7_EofIsFatal ==
    [][/\ (About("InputValue") /\ stdin = <<>>) =>
            /\ status' = "io_error"
            /\ mem' = mem
       /\ InputTakesOneByte
       /\ ErrorIsFinal]_vars

TheLoopProgram == <<"+", "+", "+", "[", "-", "]">>

\* the while test decides on the cell at the pointer: zero leaves the loop,
\* nonzero enters the body at its first expression (or the iteration bound
\* of the model ends the observation)
LoopTestsCell ==
    About("Loop") =>
        IF Cell(mem) = ZeroOf(U32Limbs)
        THEN WentOn /\ iters' = iters
        ELSE IF iters < MaxIters
        THEN /\ status' = "running"
             /\ stack' = Append(stack, [exprs |-> Current.sub, i |-> 1])
             /\ iters' = iters + 1
        ELSE status' = "cutoff"

\* the expressions of a body run in order, and the body is left, back to
\* the test, only when all of them have run
BodyRunsInFull ==
    /\ (status' = "running" /\ Len(stack') = Len(stack) /\ stack' # stack) =>
            stack' = Advanced
    /\ (status' = "running" /\ Len(stack') < Len(stack)) =>
            /\ Top.i = Len(Top.exprs) + 1
            /\ stack' = SubSeq(stack, 1, Len(stack) - 1)
            /\ stack'[Len(stack')].exprs[stack'[Len(stack')].i].kind = "Loop"

\* a completed Loop leaves the cell at the pointer 0
LoopEndsOnZero ==
    (AtExpr /\ Current.kind = "Loop" /\ WentOn) =>
        InBounds(mem') /\ Cell(mem') = ZeroOf(U32Limbs)

\* C8: a Loop tests the cell at the pointer before every iteration (zero
\* iterations when it is 0 on entry), every iteration runs the whole body in
\* order, a completed Loop leaves the cell at the pointer 0, and "+++[-]"
\* terminates after three iterations with the current cell 0.
C8_LoopSemantics ==
    /\ [][LoopTestsCell /\ BodyRunsInFull /\ LoopEndsOnZero]_vars
    /\ [](src = TheLoopProgram /\ status \notin {"idle", "running"} =>
            status = "ok" /\ iters = 3 /\ InBounds(mem) /\ Cell(mem) = ZeroOf(U32Limbs))
    /\ (src = TheLoopProgram) ~> (status = "ok")

\* C8 witness: "+++[-]" has run to the end in three iterations, tape all zero
C8_Witness ==
    /\ src = TheLoopProgram
    /\ status = "ok"
    /\ iters = 3
    /\ mem = BufferNew(BufSize)

\* C10: running the optimized tree and running the parsed tree, on fresh
\* tapes and the same input, end the same way (completion, the same fault,
\* or still looping after the same number of iterations) at the same point
\* (same output, same input consumed, same iterations started), and on
\* completion with the same tape and the same pointer.  After a fault the
\* tape is gone: run returns no Buffer then.
C10_OptimizePreservesRun ==
    phase = "ran" =>
        /\ resOptimized.status = resParsed.status
        /\ resOptimized.stdout = resParsed.stdout
        /\ resOptimized.stdin = resParsed.stdin
        /\ resOptimized.iters = resParsed.iters
        /\ resParsed.status \in {"ok", "cutoff"} => resOptimized.mem = resParsed.mem

\* C10 witness: "++[>++<-]>." is folded, and both runs print the byte 4
C10_Witness ==
    /\ phase = "ran"
    /\ src = <<"+", "+", "[", ">", "+", "+", "<", "-", "]", ">", ".">>
    /\ optimized # parsed.exprs
    /\ resParsed.status = "ok"
    /\ resOptimized.stdout = <<4>>
    /\ resOptimized.iters = 2

=============================================================================
